---- MODULE Spec2Model ----
(***************************************************************************)
(* Model of sleepiness/pipelines.py: the FullPipeline and NoEyePipeline    *)
(* classification pipelines.  One classify call is in flight at a time;   *)
(* it is modelled statement block by statement block, one action per       *)
(* stage adapter it invokes, so that an adapter that raises aborts the     *)
(* call where it stands.  The stage adapters (is_empty, facedetect.detect, *)
(* eye.detect, the eye classifier, smallface.classify, the hand model)     *)
(* are external: their outputs for one call are fixed when the call is     *)
(* made (stub adapters) and kept in the record o.                          *)
(***************************************************************************)
EXTENDS Integers, Sequences, FiniteSets, TLC

VARIABLES
    pipe,          \* the pipeline object: variant, attributes set, eye_model_confidence
    ctor,          \* outcome of the last constructor call: "none", "ok", "raised"
    pc,            \* position of the classify call in flight
    vizArg,        \* the viz argument as the caller wrote it: "omitted", "true", "false"
    viz,           \* the value of the parameter viz inside classify
    o,             \* the outputs the stage adapters give during this call
    state,         \* local variable state of classify
    s,             \* local variable s of classify (the trace text, one entry per line)
    calls,         \* the stage adapters invoked by this call, in order
    face_xxyy,     \* local face_xxyy (<<>> is None / unbound)
    eye_xxyy,      \* local eye_xxyy
    hands_xxyy,    \* local hands_xxyy
    eye_conf_arg,  \* the confidence values handed to eye.detect by this call
    vis,           \* the calls of self.visualize made by this call
    result,        \* the PassengerState returned, "none" while there is none
    raised,        \* the exception that left classify, "none" while there is none
    round,         \* 1: a fresh call, 2: the same call repeated with viz flipped
    prevResult,    \* the state returned by round 1 (when round = 2)
    img,           \* local img: the image, as the rows and columns it spans
    croppedImg,    \* local croppedImg
    reads,         \* the attributes of self this call has read
    unit,          \* a geometry utility or detect_hands applied on its own
    AVGMAP         \* the module's average pixel map, loaded at import

vars == <<pipe, ctor, pc, vizArg, viz, o, state, s, calls, face_xxyy, eye_xxyy,
          hands_xxyy, eye_conf_arg, vis, result, raised, round, prevResult,
          img, croppedImg, reads, unit, AVGMAP>>

pipeVars  == <<pipe, ctor>>
inputVars == <<vizArg, viz, o, round, prevResult, img>>
boxVars   == <<face_xxyy, eye_xxyy, hands_xxyy, croppedImg>>

----------------------------------------------------------------------------
(* Bounds of the model                                                     *)

\* largest number of eye regions eye.detect returns
MaxEyes == 2
\* largest number of results the hand model returns
MaxHands == 1
\* largest height and width of an image a geometry utility is applied to
MaxHeight == 100
MaxWidth == 100
\* largest number of results detect_hands is applied to on its own
MaxResults == 2

----------------------------------------------------------------------------
(* Data                                                                    *)

\* sleepiness.PassengerState
AWAKE    == "AWAKE"
SLEEPING == "SLEEPING"
NOTTHERE == "NOTTHERE"
PassengerState == {AWAKE, SLEEPING, NOTTHERE}

\* confidence values a caller may pass to the constructor, in tenths:
\* -0.5, 0.5 and 1.5
Confidences == {-5, 5, 15}

\* sequences over S of length 0..n
RECURSIVE SeqsUpTo(_, _)
SeqsUpTo(S, n) ==
    IF n = 0 THEN {<<>>}
    ELSE LET shorter == SeqsUpTo(S, n - 1)
         IN  shorter \cup {Append(q, x) : q \in {t \in shorter : Len(t) = n - 1}, x \in S}

Range(q) == {q[i] : i \in 1..Len(q)}

\* results of hand_model.inference: (x, y, w, h) of each detection
HandResults == {<<0, 0, 10, 10>>, <<5, 2, 3, 4>>}

\* facedetect.detect asked without with_xyxy: no box comes back
FaceBox_none == <<>>

\* the box facedetect.detect reports for the selected face
FaceBox == <<30, 60, 10, 50>>
\* the box eye.detect reports for the i-th eye region, in the face's frame
EyeBox(i) == <<5 * i, 5 * i + 4, 8, 11>>

\* the adapters a call may invoke
Stages == {"is_empty", "face_detect", "eye_detect", "eye_classify",
           "face_classify", "hand_detect"}

\* what the caller passes as img_or_path
Inputs == {"array", "path"}

\* the outputs of the stage adapters during one call: is_empty's verdict,
\* whether a face is found, the label of each eye region found (its length is
\* the number of regions), the face classifier's label, the hand model's
\* results, and the adapter that raises when invoked ("none": no adapter)
Outputs ==
    [input : Inputs, decodes : BOOLEAN, empty : BOOLEAN, face : BOOLEAN,
     eyes : SeqsUpTo({0, 1}, MaxEyes), faceLabel : {0, 1},
     hands : SeqsUpTo(HandResults, MaxHands), fail : Stages \cup {"none"}]

NoOutputs ==
    [input |-> "array", decodes |-> TRUE, empty |-> FALSE, face |-> FALSE,
     eyes |-> <<>>, faceLabel |-> 0, hands |-> <<>>, fail |-> "none"]

\* one line of the trace text s; n and m are the numbers printed in it
Line(text, n, m) == [text |-> text, n |-> n, m |-> m]

NoPipe == [variant |-> "none", attrs |-> {}, eye_model_confidence |-> 0]

\* an image (np.ndarray) is modelled by the part of the pixel grid it spans:
\* rows r0 .. r1-1 and columns c0 .. c1-1 of the frame of the original image
Image(height, width) == [r0 |-> 0, r1 |-> height, c0 |-> 0, c1 |-> width]
\* img.shape[:2]
Height(im) == im.r1 - im.r0
Width(im)  == im.c1 - im.c0

\* no image (an unbound local)
NoImage == Image(0, 0)

\* the images a caller passes to classify, as (height, width)
CallImages == {Image(100, 100)}

\* nothing has been applied on its own
NoUnit == [op |-> "none"]

\* the content of avgmap.nparray, unpickled when the module is imported
LoadedMap == "avgmap.nparray"

----------------------------------------------------------------------------
(* Construction                                                            *)

\* no call is in flight
InitCall ==
    /\ ctor = "none"
    /\ pc = "idle"
    /\ vizArg = "omitted"
    /\ viz = FALSE
    /\ o = NoOutputs
    /\ state = SLEEPING
    /\ s = <<>>
    /\ calls = <<>>
    /\ face_xxyy = <<>>
    /\ eye_xxyy = <<>>
    /\ hands_xxyy = <<>>
    /\ eye_conf_arg = <<>>
    /\ vis = <<>>
    /\ result = "none"
    /\ raised = "none"
    /\ round = 1
    /\ prevResult = "none"
    /\ croppedImg = NoImage
    /\ reads = {}
    /\ unit = NoUnit
    /\ AVGMAP = LoadedMap

Init ==
    /\ InitCall
    /\ pipe = NoPipe
    /\ img = NoImage

callVars == <<pc, vizArg, viz, o, state, s, calls, face_xxyy, eye_xxyy,
              hands_xxyy, eye_conf_arg, vis, result, raised, round, prevResult,
              img, croppedImg, reads>>

\* FullPipeline.__init__: the four loaders run (any of them may raise;
\* hand_model_confidence goes to hand.load_model only), then
\* eye_model_confidence is stored as given
FullPipeline_init(eye_model_confidence, hand_model_confidence, loads) ==
    /\ pc = "idle"
    /\ pipe = NoPipe
    /\ IF loads
       THEN /\ pipe' = [variant |-> "Full",
                        attrs |-> {"face_model", "eye_model", "eye_classifier",
                                   "hand_model", "eye_model_confidence"},
                        eye_model_confidence |-> eye_model_confidence]
            /\ ctor' = "ok"
       ELSE /\ pipe' = NoPipe
            /\ ctor' = "raised"
    /\ UNCHANGED <<AVGMAP, unit, callVars>>

\* NoEyePipeline.__init__: FullPipeline.__init__ is not called
NoEyePipeline_init(loads) ==
    /\ pc = "idle"
    /\ pipe = NoPipe
    /\ IF loads
       THEN /\ pipe' = [variant |-> "NoEye",
                        attrs |-> {"face_detection", "face_classification"},
                        eye_model_confidence |-> 0]
            /\ ctor' = "ok"
       ELSE /\ pipe' = NoPipe
            /\ ctor' = "raised"
    /\ UNCHANGED <<AVGMAP, unit, callVars>>

Construct ==
    \/ \E e \in Confidences, h \in Confidences, loads \in BOOLEAN :
          FullPipeline_init(e, h, loads)
    \/ \E loads \in BOOLEAN : NoEyePipeline_init(loads)

----------------------------------------------------------------------------
(* Helpers of classify                                                     *)

\* int() of the fraction n / d: truncation towards zero
IntOf(n, d) == IF n >= 0 THEN n \div d ELSE -((-n) \div d)

\* the lower rows kept instead of the upper ones
crop_vertically_lower(im) ==
    LET cropped_height == IntOf(Height(im) * 8, 10)
    IN  [im EXCEPT !.r0 = im.r1 - cropped_height]

\* crop_vertically: img[:int(height * 0.8), :]
crop_vertically(im) ==
    LET cropped_height == IntOf(Height(im) * 8, 10)
    IN  [im EXCEPT !.r1 = im.r0 + cropped_height]

\* crop_horizontally: img[:, int(width * 0.25):int(width * 0.75)]
crop_horizontally(im) ==
    LET xmin == IntOf(Width(im) * 25, 100)
        xmax == IntOf(Width(im) * 75, 100)
    IN  [im EXCEPT !.c0 = im.c0 + xmin, !.c1 = im.c0 + xmax]

\* the offset not halved: x_off = full_width * (1 - keep_horizontal)
transform_xxyy_whole_offset(full_img, xxyy, keepNum, keepDen) ==
    LET full_width == Width(full_img)
        offNum == full_width * (keepDen - keepNum)
        offDen == keepDen
    IN  <<IntOf(xxyy[1] * offDen + offNum, offDen),
          IntOf(xxyy[2] * offDen + offNum, offDen),
          xxyy[3], xxyy[4]>>

\* transform_xxyy_for_cropped_img, keep_horizontal given as the fraction
\* keepNum / keepDen: x_off = full_width * (1 - keep_horizontal) / 2 and
\* y_off = 0 are added and the sums go through int()
transform_xxyy_for_cropped_img(full_img, xxyy, keepNum, keepDen) ==
    LET full_width == Width(full_img)
        offNum == full_width * (keepDen - keepNum)
        offDen == 2 * keepDen
    IN  <<IntOf(xxyy[1] * offDen + offNum, offDen),
          IntOf(xxyy[2] * offDen + offNum, offDen),
          xxyy[3], xxyy[4]>>

\* the default of the parameter viz in the signature of classify
DefaultViz(variant) == IF variant = "Full" THEN FALSE ELSE TRUE

\* a default of NOTTHERE instead of SLEEPING
DefaultState_notthere == "NOTTHERE"

\* a default of AWAKE instead of SLEEPING
DefaultState_awake == "AWAKE"

\* "# Default": the value state starts with
DefaultState == SLEEPING

\* state.name without lower()
NameLower_name(st) == st

\* state.name.lower()
NameLower(st) ==
    CASE st = AWAKE    -> "awake"
      [] st = SLEEPING -> "sleeping"
      [] st = NOTTHERE -> "notthere"

\* the label the eye classifier gives region r (regions are numbered as
\* eye.detect returns them)
EyeClassifier(r) == o.eyes[r]

\* the labels read as in open_eye_clustering, where 0 is the open eye
open_eye_classify_cluster(eye_regions) ==
    [i \in 1..Len(eye_regions) |-> 1 - EyeClassifier(eye_regions[i])]

\* open_eye_classify: one label per region, in the order of the regions
open_eye_classify(eye_regions) ==
    [i \in 1..Len(eye_regions) |-> EyeClassifier(eye_regions[i])]

\* voting instead of any(): every region must be open
any_unanimous(labels) == labels # <<>> /\ \A i \in 1..Len(labels) : labels[i] # 0

\* a test of the number of regions instead of their labels
any_region(labels) == Len(labels) > 0

\* Python's any() and sum() on a list of labels
any(labels) == \E i \in 1..Len(labels) : labels[i] # 0

RECURSIVE sum(_)
sum(labels) == IF labels = <<>> THEN 0 ELSE labels[1] + sum(Tail(labels))

\* found only from the second hand on
detect_hands_two(results) ==
    [found |-> Len(results) > 1,
     boxes |-> [i \in 1..Len(results) |->
                  <<results[i][1], results[i][1] + results[i][3],
                    results[i][2], results[i][2] + results[i][4]>>]]

\* the boxes built as (x, y, x+w, y+h)
detect_hands_xyxy(results) ==
    [found |-> Len(results) # 0,
     boxes |-> [i \in 1..Len(results) |->
                  <<results[i][1], results[i][2],
                    results[i][1] + results[i][3], results[i][2] + results[i][4]>>]]

\* detect_hands: (found, boxes) from the results of hand_model.inference
detect_hands(results) ==
    [found |-> Len(results) # 0,
     boxes |-> [i \in 1..Len(results) |->
                  <<results[i][1], results[i][1] + results[i][3],
                    results[i][2], results[i][2] + results[i][4]>>]]

\* the two labels of the face classifier swapped
FaceLabelState_swapped(res) == IF res = 0 THEN "SLEEPING" ELSE "AWAKE"

\* the state NoEyePipeline.classify assigns for the face classifier's label
FaceLabelState(res) == IF res = 0 THEN AWAKE ELSE SLEEPING

\* visualize: the loop over eyes_xxyy indexes face_xxyy, which raises a
\* TypeError when face_xxyy is None
visualize_fails(face, eyes) == eyes # <<>> /\ face = <<>>

\* the arguments of one self.visualize call
VisualizeCall(face, eyes, hands, label, text) ==
    [face_xxyy |-> face, eyes_xxyy |-> eyes, hands_xxyy |-> hands,
     label |-> label, text |-> text]

\* a failure of the hand model is caught and taken as its normal output
Raises_caught(stage) == stage # "hand_detect" /\ o.fail = stage

\* the invocation of the adapter stage raises; classify has no try statement,
\* so every step below lets the exception leave the call
Raises(stage) == o.fail = stage

\* an attribute of self among attrs was never assigned: reading it raises
Missing(attrs) == ~(attrs \subseteq pipe.attrs)

\* the exception of a step that reads attrs and then invokes an adapter
ErrorOf(attrs) == IF Missing(attrs) THEN "AttributeError" ELSE "InferenceFailure"

\* the face model read under the name FullPipeline.__init__ gives it
NoEyeFaceAttrs_base == {"face_model"}

\* return leaves the state behind
Return_nothing(v) == pc' = "done" /\ result' = result /\ raised' = raised

\* the attributes of self each step reads
FullFaceAttrs        == {"face_model"}
FullEyeDetectAttrs   == {"eye_model", "eye_model_confidence"}
FullEyeClassifyAttrs == {"eye_classifier"}
FullHandsAttrs       == {"hand_model"}
NoEyeFaceAttrs       == {"face_detection"}
NoEyeClassifyAttrs   == {"face_classification"}

\* an exception leaves classify: nothing is returned
Throw(kind) == pc' = "raised" /\ raised' = kind /\ result' = result
\* return v
Return(v) == pc' = "done" /\ result' = v /\ raised' = raised
\* control goes on to the statement block l
Goto(l) == pc' = l /\ UNCHANGED <<result, raised>>

----------------------------------------------------------------------------
(* A call of classify                                                      *)

\* the caller invokes pipe.classify(img_or_path [, viz]) with stub adapters
\* that will produce the outputs out
Call(arg, out, im) ==
    /\ pc = "idle"
    /\ pipe # NoPipe
    /\ pc' = "start"
    /\ vizArg' = arg
    /\ viz' = IF arg = "omitted" THEN DefaultViz(pipe.variant) ELSE arg = "true"
    /\ o' = out
    /\ img' = im
    /\ round' = 1
    /\ UNCHANGED <<AVGMAP, unit, pipeVars, state, s, calls, boxVars, eye_conf_arg, vis,
                   result, raised, prevResult, reads>>

\* the image is taken as loaded whatever cv2.imread gave
LoadFails_unchecked == FALSE

\* "# Read image": cv2.imread gives None for a path that does not decode,
\* and the assert "Could not load the image." fails
LoadFails == o.input = "path" /\ ~o.decodes

\* "# Default" and "# Read image": the same in both classify methods
ReadImage ==
    /\ pc = "start"
    /\ state' = DefaultState
    /\ s' = <<>>
    /\ IF LoadFails
       THEN Throw("AssertionError")
       ELSE Goto("empty")
    /\ UNCHANGED <<AVGMAP, unit, pipeVars, inputVars, calls, boxVars, eye_conf_arg, vis, reads>>

\* an empty seat does not end the call when viz is off
EmptyStep_falls_through ==
    /\ pc = "empty"
    /\ calls' = Append(calls, "is_empty")
    /\ IF Raises("is_empty")
       THEN Throw("InferenceFailure") /\ UNCHANGED <<state, s>>
       ELSE /\ state' = IF o.empty THEN NOTTHERE ELSE state
            /\ s' = IF viz THEN Append(s, Line("Seat is not empty.", 0, 0)) ELSE s
            /\ Goto("face")
    /\ UNCHANGED <<AVGMAP, unit, pipeVars, inputVars, boxVars, eye_conf_arg, vis, reads>>

\* an empty seat ends the call when viz is on, too
EmptyStep_returns ==
    /\ pc = "empty"
    /\ calls' = Append(calls, "is_empty")
    /\ IF Raises("is_empty")
       THEN Throw("InferenceFailure") /\ UNCHANGED <<state, s>>
       ELSE /\ state' = IF o.empty THEN NOTTHERE ELSE state
            /\ IF o.empty
               THEN Return(NOTTHERE) /\ s' = s
               ELSE /\ s' = IF viz THEN Append(s, Line("Seat is not empty.", 0, 0)) ELSE s
                    /\ Goto("face")
    /\ UNCHANGED <<AVGMAP, unit, pipeVars, inputVars, boxVars, eye_conf_arg, vis, reads>>

\* the average map is adapted to the image just seen
EmptyStep_updates_map ==
    /\ pc = "empty"
    /\ calls' = Append(calls, "is_empty")
    /\ AVGMAP' = "adapted"
    /\ IF Raises("is_empty")
       THEN Throw("InferenceFailure") /\ UNCHANGED <<state, s>>
       ELSE /\ state' = IF o.empty THEN NOTTHERE ELSE state
            /\ IF o.empty /\ ~viz
               THEN Return(NOTTHERE) /\ s' = s
               ELSE /\ s' = IF viz THEN Append(s, Line("Seat is not empty.", 0, 0)) ELSE s
                    /\ Goto("face")
    /\ UNCHANGED <<unit, pipeVars, inputVars, boxVars, eye_conf_arg, vis, reads>>

\* "# 1. Step" of either classify (the two methods have the same text here)
EmptyStep ==
    /\ pc = "empty"
    /\ calls' = Append(calls, "is_empty")
    /\ IF Raises("is_empty")
       THEN Throw("InferenceFailure") /\ UNCHANGED <<state, s>>
       ELSE /\ state' = IF o.empty THEN NOTTHERE ELSE state
            /\ IF o.empty /\ ~viz
               THEN Return(NOTTHERE) /\ s' = s
               ELSE /\ s' = IF viz THEN Append(s, Line("Seat is not empty.", 0, 0)) ELSE s
                    /\ Goto("face")
    /\ UNCHANGED <<AVGMAP, unit, pipeVars, inputVars, boxVars, eye_conf_arg, vis, reads>>

FullEmptyStep == pipe.variant = "Full" /\ EmptyStep

NoEyeEmptyStep == pipe.variant = "NoEye" /\ EmptyStep

\* FullPipeline.classify "# 2. Step" and the test of face_detected
FullFaceStep ==
    /\ pc = "face" /\ pipe.variant = "Full"
    /\ reads' = reads \cup FullFaceAttrs
    /\ calls' = IF Missing(FullFaceAttrs) THEN calls ELSE Append(calls, "face_detect")
    /\ IF Missing(FullFaceAttrs) \/ Raises("face_detect")
       THEN Throw(ErrorOf(FullFaceAttrs)) /\ UNCHANGED <<s, boxVars>>
       ELSE /\ face_xxyy' = IF o.face THEN FaceBox ELSE <<>>
            /\ UNCHANGED <<hands_xxyy, croppedImg>>
            /\ IF o.face
               THEN /\ s' = IF viz THEN Append(s, Line("Face detected.", 0, 0)) ELSE s
                    /\ eye_xxyy' = eye_xxyy
                    /\ Goto("eye_detect")
               ELSE /\ s' = s
                    /\ eye_xxyy' = <<>>
                    /\ Goto("hands")
    /\ UNCHANGED <<AVGMAP, unit, pipeVars, inputVars, state, eye_conf_arg, vis>>

\* FullPipeline.classify: eye.detect and the test of len(eye_regions)
FullEyeDetectStep ==
    /\ pc = "eye_detect" /\ pipe.variant = "Full"
    /\ reads' = reads \cup FullEyeDetectAttrs
    /\ calls' = IF Missing(FullEyeDetectAttrs) THEN calls ELSE Append(calls, "eye_detect")
    /\ eye_conf_arg' = Append(eye_conf_arg, pipe.eye_model_confidence)
    /\ IF Missing(FullEyeDetectAttrs) \/ Raises("eye_detect")
       THEN Throw(ErrorOf(FullEyeDetectAttrs)) /\ UNCHANGED <<s, eye_xxyy>>
       ELSE /\ eye_xxyy' = [i \in 1..Len(o.eyes) |-> EyeBox(i)]
            /\ IF Len(o.eyes) > 0
               THEN /\ s' = IF viz THEN Append(s, Line("eye/s detected.", Len(o.eyes), 0)) ELSE s
                    /\ Goto("eye_classify")
               ELSE /\ s' = IF viz THEN Append(s, Line("No eyes detected.", 0, 0)) ELSE s
                    /\ Goto("hands")
    /\ UNCHANGED <<AVGMAP, unit, pipeVars, inputVars, state, face_xxyy, hands_xxyy, croppedImg, vis>>

\* FullPipeline.classify: open_eye_classify and the test any(eye_labels)
FullEyeClassifyStep ==
    /\ pc = "eye_classify" /\ pipe.variant = "Full"
    /\ reads' = reads \cup FullEyeClassifyAttrs
    /\ IF Missing(FullEyeClassifyAttrs) \/ Raises("eye_classify")
       THEN /\ calls' = IF Missing(FullEyeClassifyAttrs) THEN calls
                        ELSE Append(calls, "eye_classify")
            /\ Throw(ErrorOf(FullEyeClassifyAttrs))
            /\ UNCHANGED <<state, s>>
       ELSE LET eye_regions == [i \in 1..Len(o.eyes) |-> i]
                eye_labels == open_eye_classify(eye_regions)
            IN  /\ calls' = calls \o [i \in 1..Len(eye_regions) |-> "eye_classify"]
                /\ IF any(eye_labels)
                   THEN /\ s' = IF viz
                                THEN Append(s, Line("open. closed.", sum(eye_labels),
                                                    Len(eye_labels) - sum(eye_labels)))
                                ELSE s
                        /\ state' = AWAKE
                        /\ IF ~viz THEN Return(AWAKE) ELSE Goto("hands")
                   ELSE /\ s' = IF viz THEN Append(s, Line("All eyes closed.", 0, 0)) ELSE s
                        /\ state' = state
                        /\ Goto("hands")
    /\ UNCHANGED <<AVGMAP, unit, pipeVars, inputVars, boxVars, eye_conf_arg, vis>>

\* FullPipeline.classify "# 4. Step"
FullHandsStep ==
    /\ pc = "hands" /\ pipe.variant = "Full"
    /\ croppedImg' = crop_horizontally(crop_vertically(img))
    /\ reads' = reads \cup FullHandsAttrs
    /\ calls' = IF Missing(FullHandsAttrs) THEN calls ELSE Append(calls, "hand_detect")
    /\ IF Missing(FullHandsAttrs) \/ Raises("hand_detect")
       THEN Throw(ErrorOf(FullHandsAttrs)) /\ UNCHANGED <<state, s, hands_xxyy>>
       ELSE LET r == detect_hands(o.hands)
            IN  /\ hands_xxyy' = r.boxes
                /\ IF r.found
                   THEN /\ s' = IF viz THEN Append(s, Line("Hand/s detected in cropped image.", 0, 0)) ELSE s
                        /\ state' = AWAKE
                        /\ IF ~viz THEN Return(AWAKE) ELSE Goto("final")
                   ELSE /\ s' = IF viz THEN Append(s, Line("No hands detected in cropped image.", 0, 0)) ELSE s
                        /\ state' = state
                        /\ Goto("final")
    /\ UNCHANGED <<AVGMAP, unit, pipeVars, inputVars, face_xxyy, eye_xxyy, eye_conf_arg, vis>>

\* visualize called whatever viz is
FullFinalStep_always ==
    /\ pc = "final" /\ pipe.variant = "Full"
    /\ vis' = Append(vis, VisualizeCall(face_xxyy, eye_xxyy, hands_xxyy,
                                        NameLower(state), s))
    /\ IF visualize_fails(face_xxyy, eye_xxyy) THEN Throw("TypeError") ELSE Return(state)
    /\ UNCHANGED <<AVGMAP, unit, pipeVars, inputVars, state, s, calls, boxVars, eye_conf_arg, reads>>

\* FullPipeline.classify "# 5. Step"
FullFinalStep ==
    /\ pc = "final" /\ pipe.variant = "Full"
    /\ vis' = IF viz
              THEN Append(vis, VisualizeCall(face_xxyy, eye_xxyy, hands_xxyy,
                                             NameLower(state), s))
              ELSE vis
    /\ IF viz /\ visualize_fails(face_xxyy, eye_xxyy)
       THEN Throw("TypeError")
       ELSE Return(state)
    /\ UNCHANGED <<AVGMAP, unit, pipeVars, inputVars, state, s, calls, boxVars, eye_conf_arg, reads>>

\* NoEyePipeline.classify "# 2. Step" and the test of face_detected
NoEyeFaceStep ==
    /\ pc = "face" /\ pipe.variant = "NoEye"
    /\ reads' = reads \cup NoEyeFaceAttrs
    /\ calls' = IF Missing(NoEyeFaceAttrs) THEN calls ELSE Append(calls, "face_detect")
    /\ IF Missing(NoEyeFaceAttrs) \/ Raises("face_detect")
       THEN Throw(ErrorOf(NoEyeFaceAttrs)) /\ UNCHANGED <<s, face_xxyy>>
       ELSE /\ face_xxyy' = IF o.face THEN FaceBox ELSE <<>>
            /\ IF o.face
               THEN /\ s' = IF viz THEN Append(s, Line("Face detected.", 0, 0)) ELSE s
                    /\ Goto("face_classify")
               ELSE /\ s' = s
                    /\ Goto("final")
    /\ UNCHANGED <<AVGMAP, unit, pipeVars, inputVars, state, eye_xxyy, hands_xxyy, croppedImg,
                   eye_conf_arg, vis>>

\* NoEyePipeline.classify "# Classify the face"
NoEyeFaceClassifyStep ==
    /\ pc = "face_classify" /\ pipe.variant = "NoEye"
    /\ reads' = reads \cup NoEyeClassifyAttrs
    /\ calls' = IF Missing(NoEyeClassifyAttrs) THEN calls ELSE Append(calls, "face_classify")
    /\ IF Missing(NoEyeClassifyAttrs) \/ Raises("face_classify")
       THEN Throw(ErrorOf(NoEyeClassifyAttrs)) /\ UNCHANGED <<state, s>>
       ELSE LET res == o.faceLabel
            IN  /\ state' = FaceLabelState(res)
                /\ IF ~viz
                   THEN Return(FaceLabelState(res)) /\ s' = s
                   ELSE /\ s' = Append(s, Line(IF res = 0 THEN "Face classified as awake."
                                                          ELSE "Face classified as sleeping.", 0, 0))
                        /\ Goto("final")
    /\ UNCHANGED <<AVGMAP, unit, pipeVars, inputVars, boxVars, eye_conf_arg, vis>>

\* NoEyePipeline.classify "# 5. Step"
NoEyeFinalStep ==
    /\ pc = "final" /\ pipe.variant = "NoEye"
    /\ vis' = IF viz
              THEN Append(vis, VisualizeCall(face_xxyy, <<>>, <<>>, NameLower(state), s))
              ELSE vis
    /\ IF viz /\ visualize_fails(face_xxyy, <<>>)
       THEN Throw("TypeError")
       ELSE Return(state)
    /\ UNCHANGED <<AVGMAP, unit, pipeVars, inputVars, state, s, calls, boxVars, eye_conf_arg, reads>>

----------------------------------------------------------------------------
(* The caller                                                              *)

\* the caller is done with the call (it returned or raised); the locals of
\* classify are gone
Finish ==
    /\ pc \in {"done", "raised"}
    /\ pc' = "idle"
    /\ vizArg' = "omitted" /\ viz' = FALSE /\ o' = NoOutputs
    /\ state' = SLEEPING /\ s' = <<>> /\ calls' = <<>>
    /\ face_xxyy' = <<>> /\ eye_xxyy' = <<>> /\ hands_xxyy' = <<>>
    /\ eye_conf_arg' = <<>> /\ vis' = <<>>
    /\ result' = "none" /\ raised' = "none"
    /\ round' = 1 /\ prevResult' = "none"
    /\ img' = NoImage /\ croppedImg' = NoImage /\ reads' = {}
    /\ UNCHANGED <<AVGMAP, unit, pipeVars>>

\* the caller repeats a call that returned, on the same pipeline, the same
\* image and the same stub adapters, with the viz argument flipped
CallAgain ==
    /\ pc = "done" /\ round = 1
    /\ pc' = "start"
    /\ round' = 2
    /\ prevResult' = result
    /\ viz' = ~viz
    /\ vizArg' = IF viz THEN "false" ELSE "true"
    /\ result' = "none"
    /\ calls' = <<>> /\ vis' = <<>> /\ eye_conf_arg' = <<>>
    /\ face_xxyy' = <<>> /\ eye_xxyy' = <<>> /\ hands_xxyy' = <<>>
    /\ croppedImg' = NoImage /\ reads' = {}
    /\ UNCHANGED <<AVGMAP, unit, pipeVars, o, img, state, s, raised>>

VizArgs == {"omitted", "true", "false"}

\* the stub outputs a caller can set up: decodes matters for a path only
CallOutputs == {out \in Outputs : out.input = "array" => out.decodes}

\* any call a caller can make
CallAny ==
    /\ pc = "idle"
    /\ \E arg \in VizArgs, out \in CallOutputs, im \in CallImages : Call(arg, out, im)

Next ==
    \/ Construct
    \/ CallAny
    \/ ReadImage
    \/ FullEmptyStep
    \/ FullFaceStep
    \/ FullEyeDetectStep
    \/ FullEyeClassifyStep
    \/ FullHandsStep
    \/ FullFinalStep
    \/ NoEyeEmptyStep
    \/ NoEyeFaceStep
    \/ NoEyeFaceClassifyStep
    \/ NoEyeFinalStep
    \/ Finish
    \/ CallAgain

Spec == Init /\ [][Next]_vars

\* the statement blocks of the classify call in flight
ClassifyStep ==
    \/ ReadImage
    \/ FullEmptyStep
    \/ FullFaceStep
    \/ FullEyeDetectStep
    \/ FullEyeClassifyStep
    \/ FullHandsStep
    \/ FullFinalStep
    \/ NoEyeEmptyStep
    \/ NoEyeFaceStep
    \/ NoEyeFaceClassifyStep
    \/ NoEyeFinalStep

\* classify is sequential code: a call in flight goes on to its next
\* statement block (the adapters are blocking calls that come back)
LiveSpec == Spec /\ WF_vars(ClassifyStep)

----------------------------------------------------------------------------
(* The geometry utilities and detect_hands applied on their own: pure      *)
(* functions of an image, a box or a list of results                       *)

Min(a, b) == IF a <= b THEN a ELSE b

\* some spans lo..hi within 0..n
Spans(n) == {<<0, Min(10, n)>>, <<n \div 2, n>>, <<0, n>>}

\* some boxes (xmin, xmax, ymin, ymax) measured inside the image im
SampleBoxes(im) ==
    {<<xs[1], xs[2], ys[1], ys[2]>> : xs \in Spans(Width(im)), ys \in Spans(Height(im))}

UnitInit ==
    /\ InitCall
    /\ pipe = NoPipe
    /\ img \in {Image(h, w) : h \in 1..MaxHeight, w \in 1..MaxWidth}

unitFrame == <<pipe, ctor, pc, vizArg, viz, o, state, s, calls, face_xxyy, eye_xxyy,
               hands_xxyy, eye_conf_arg, vis, result, raised, round, prevResult,
               img, reads, AVGMAP>>

\* crop_vertically(img)
UnitCropVertically ==
    /\ unit.op = "none"
    /\ unit' = [op |-> "crop_vertically", out |-> crop_vertically(img)]
    /\ UNCHANGED <<unitFrame, croppedImg>>

\* crop_horizontally(img)
UnitCropHorizontally ==
    /\ unit.op = "none"
    /\ unit' = [op |-> "crop_horizontally", out |-> crop_horizontally(img)]
    /\ UNCHANGED <<unitFrame, croppedImg>>

\* the crop of classify's "# 4. Step"
UnitCropForHands ==
    /\ unit.op = "none"
    /\ croppedImg' = crop_horizontally(crop_vertically(img))
    /\ unit' = [op |-> "crop"]
    /\ UNCHANGED unitFrame

\* visualize's remap of a hand box measured in croppedImg, with the default
\* keep_horizontal = 0.5
UnitTransform(xxyy) ==
    /\ unit.op = "crop"
    /\ unit' = [op |-> "transform", xxyy |-> xxyy,
                out |-> transform_xxyy_for_cropped_img(img, xxyy, 1, 2)]
    /\ UNCHANGED <<unitFrame, croppedImg>>

\* detect_hands on the results of one inference
UnitDetectHands(results) ==
    /\ unit.op = "none"
    /\ unit' = [op |-> "detect_hands", results |-> results, out |-> detect_hands(results)]
    /\ UNCHANGED <<unitFrame, croppedImg>>

UnitTransformAny ==
    /\ unit.op = "crop"
    /\ \E xxyy \in SampleBoxes(croppedImg) : UnitTransform(xxyy)

UnitDetectHandsAny ==
    /\ unit.op = "none"
    /\ \E results \in SeqsUpTo(HandResults, MaxResults) : UnitDetectHands(results)

UnitNext ==
    \/ UnitCropVertically
    \/ UnitCropHorizontally
    \/ UnitCropForHands
    \/ UnitTransformAny
    \/ UnitDetectHandsAny

UnitSpec == UnitInit /\ [][UnitNext]_vars

TypeOK ==
    /\ pc \in {"idle", "start", "empty", "face", "eye_detect", "eye_classify",
               "face_classify", "hands", "final", "done", "raised"}
    /\ result \in PassengerState \cup {"none"}
    /\ state \in PassengerState

----------------------------------------------------------------------------
(* Properties                                                              *)

\* a confidence (in tenths) within the valid range [0, 1]
InRange(c) == c >= 0 /\ c <= 10

FullCall  == pipe.variant = "Full"
NoEyeCall == pipe.variant = "NoEye"
Returned  == pc = "done"
Invoked(stage) == stage \in Range(calls)
OpenEye   == \E i \in 1..Len(o.eyes) : o.eyes[i] = 1
ClosedEye == \E i \in 1..Len(o.eyes) : o.eyes[i] = 0

\* C1: in both variants and both modes, a call whose emptiness detector
\* reported isEmpty = true returns NOTTHERE, whatever the later adapters give.
C1_EmptyReturnsNotThere ==
    (Returned /\ o.empty) => result = NOTTHERE

\* C2: the same call repeated with the diagnostics flag flipped, on the same
\* adapter outputs, returns the same PassengerState.
C2_DiagnosticsSameState ==
    (Returned /\ round = 2) => result = prevResult

\* C3: Full variant, seat not empty, face detected, at least one eye region
\* and one of them classified open: classify returns AWAKE, whatever the
\* other labels and whatever the hand model reports.
C3_AnyOpenEyeAwake ==
    (FullCall /\ Returned /\ ~o.empty /\ o.face /\ OpenEye) => result = AWAKE

C3_Witness ==
    /\ FullCall /\ Returned /\ ~o.empty /\ o.face /\ OpenEye /\ ClosedEye
    /\ o.hands = <<>> /\ Invoked("eye_classify") /\ result = AWAKE

\* C4: Full variant, seat not empty, no eye region found (no face, or a face
\* without eye regions) and at least one hand found: classify returns AWAKE.
C4_NoEyesHandAwake ==
    (FullCall /\ Returned /\ ~o.empty /\ (~o.face \/ o.eyes = <<>>) /\ o.hands # <<>>)
        => result = AWAKE

C4_Witness ==
    /\ FullCall /\ Returned /\ ~o.empty /\ o.face /\ o.eyes = <<>> /\ o.hands # <<>>
    /\ Invoked("eye_detect") /\ Invoked("hand_detect") /\ result = AWAKE

\* C5: Full variant, seat not empty, no face and no hand: classify returns
\* SLEEPING, in diagnostic and in non-diagnostic mode.
C5_NoFaceNoHandSleeping ==
    (FullCall /\ Returned /\ ~o.empty /\ ~o.face /\ o.hands = <<>>) => result = SLEEPING

C5_Witness ==
    /\ FullCall /\ Returned /\ ~o.empty /\ ~o.face /\ o.hands = <<>> /\ viz
    /\ Invoked("hand_detect") /\ result = SLEEPING

\* C6: NoEye variant, seat not empty: a face with label 0 gives AWAKE, a face
\* with label 1 gives SLEEPING, no face gives SLEEPING.
C6_NoEyeFaceDecides ==
    (NoEyeCall /\ Returned /\ ~o.empty) =>
        /\ (o.face /\ o.faceLabel = 0) => result = AWAKE
        /\ (o.face /\ o.faceLabel = 1) => result = SLEEPING
        /\ ~o.face => result = SLEEPING

C6_Witness ==
    /\ NoEyeCall /\ Returned /\ ~o.empty /\ o.face /\ o.faceLabel = 0
    /\ Invoked("face_classify") /\ result = AWAKE

\* C7: in both variants a call that omits the diagnostics argument runs in
\* non-diagnostic mode and never invokes the visualizer.
C7_OmittedVizIsNonDiagnostic ==
    (pc # "idle" /\ vizArg = "omitted") => (~viz /\ vis = <<>>)

\* C8: AWAKE is returned on positive evidence only: in the Full variant an
\* eye region classified open or a hand found in this call, in the NoEye
\* variant a detected face classified with label 0.
C8_AwakeOnlyOnEvidence ==
    (Returned /\ result = AWAKE) =>
        /\ FullCall => \/ Invoked("eye_classify") /\ o.face /\ OpenEye
                       \/ Invoked("hand_detect") /\ o.hands # <<>>
        /\ NoEyeCall => Invoked("face_classify") /\ o.face /\ o.faceLabel = 0

C8_Witness ==
    /\ FullCall /\ Returned /\ result = AWAKE /\ viz /\ o.empty
    /\ ~OpenEye /\ o.hands # <<>>

\* C9: once the adapter that raises has been invoked, the call is over with
\* that exception: nothing is returned, the raising invocation is the last
\* invocation of any adapter, and the visualizer is not invoked.
C9_AdapterErrorPropagates ==
    Invoked(o.fail) =>
        /\ pc = "raised" /\ raised = "InferenceFailure"
        /\ result = "none"
        /\ calls[Len(calls)] = o.fail
        /\ Cardinality({i \in 1..Len(calls) : calls[i] = o.fail}) = 1
        /\ vis = <<>>

C9_Witness ==
    /\ FullCall /\ viz /\ pc = "raised" /\ o.fail = "hand_detect"
    /\ Invoked("hand_detect") /\ Invoked("eye_classify") /\ result = "none"

\* C10: no FullPipeline holds an out-of-range eye confidence, and none is
\* handed to the eye locator by classify.
C10_OutOfRangeConfidenceRejected ==
    /\ FullCall => InRange(pipe.eye_model_confidence)
    /\ \A i \in 1..Len(eye_conf_arg) : InRange(eye_conf_arg[i])

\* C11: in both variants a call given a path that does not decode to an image
\* fails with the image-load error (the failing assert "Could not load the
\* image.") before any stage adapter is queried, and returns no state.
C11_BadPathFailsBeforeStages ==
    (pc \notin {"idle", "start"} /\ o.input = "path" /\ ~o.decodes) =>
        /\ pc = "raised" /\ raised = "AssertionError"
        /\ calls = <<>> /\ vis = <<>>
        /\ result = "none"

C11_Witness ==
    /\ NoEyeCall /\ pc = "raised" /\ raised = "AssertionError"
    /\ o.input = "path" /\ ~o.decodes /\ o.empty /\ calls = <<>>

\* C12: a box measured inside crop_horizontally(crop_vertically(image)) is
\* remapped, with the default keep_horizontal = 0.5, to its true place in the
\* image: x shifted by the left column of the crop, which is floor(W / 4), and
\* y unchanged (the crop starts at row 0); for W = 100 the box (0, 10, 0, 10)
\* goes to (25, 35, 0, 10).
C12_RemapInvertsCrop ==
    unit.op = "transform" =>
        LET b == unit.xxyy
            left == croppedImg.c0 - img.c0
            top == croppedImg.r0 - img.r0
        IN  /\ unit.out = <<b[1] + left, b[2] + left, b[3] + top, b[4] + top>>
            /\ 4 * left <= Width(img) /\ Width(img) < 4 * (left + 1)
            /\ unit.out[3] = b[3] /\ unit.out[4] = b[4]
            /\ (Width(img) = 100 /\ b = <<0, 10, 0, 10>>) => unit.out = <<25, 35, 0, 10>>

C12_Witness ==
    /\ unit.op = "transform" /\ Width(img) = 99 /\ Height(img) = 7
    /\ unit.xxyy[1] > 0 /\ unit.out[1] = unit.xxyy[1] + 24

\* C13: crop_vertically returns rows [0, floor(0.8 H)) with all columns,
\* crop_horizontally returns columns [floor(0.25 W), floor(0.75 W)) with all
\* rows; a 100 x 100 image gives rows [0, 80) and columns [25, 75); the
\* image given is left as it was.
C13_CropWindows ==
    /\ [](unit.op = "crop_vertically" =>
            LET out == unit.out
            IN  /\ out.c0 = img.c0 /\ out.c1 = img.c1
                /\ out.r0 = img.r0
                /\ 5 * Height(out) <= 4 * Height(img)
                /\ 4 * Height(img) < 5 * (Height(out) + 1)
                /\ img = Image(100, 100) => out = [r0 |-> 0, r1 |-> 80, c0 |-> 0, c1 |-> 100])
    /\ [](unit.op = "crop_horizontally" =>
            LET out == unit.out
                left == out.c0 - img.c0
                right == out.c1 - img.c0
            IN  /\ out.r0 = img.r0 /\ out.r1 = img.r1
                /\ 4 * left <= Width(img) /\ Width(img) < 4 * (left + 1)
                /\ 4 * right <= 3 * Width(img) /\ 3 * Width(img) < 4 * (right + 1)
                /\ img = Image(100, 100) => out = [r0 |-> 0, r1 |-> 100, c0 |-> 25, c1 |-> 75])
    /\ [][img' = img]_vars

C13_Witness ==
    /\ unit.op = "crop_vertically" /\ img = Image(100, 100)
    /\ Height(unit.out) = 80 /\ Width(unit.out) = 100

\* C20: detect_hands gives found = true exactly when the hand model returned
\* a result, and one box per result, in the model's order, each (x, y, w, h)
\* turned into (x, x + w, y, y + h); found is true exactly when there is a box.
C20_DetectHandsBoxes ==
    unit.op = "detect_hands" =>
        LET res == unit.results
            out == unit.out
        IN  /\ out.found <=> Len(res) >= 1
            /\ Len(out.boxes) = Len(res)
            /\ \A i \in 1..Len(res) :
                  /\ out.boxes[i][1] = res[i][1]
                  /\ out.boxes[i][2] - out.boxes[i][1] = res[i][3]
                  /\ out.boxes[i][3] = res[i][2]
                  /\ out.boxes[i][4] - out.boxes[i][3] = res[i][4]
            /\ out.found <=> out.boxes # <<>>

C20_Witness ==
    /\ unit.op = "detect_hands" /\ Len(unit.results) = 2
    /\ unit.results[1] # unit.results[2]
    /\ unit.out.found /\ unit.out.boxes[2] = <<0, 10, 0, 10>>

\* the order of the stages
StageRank(stage) ==
    CASE stage = "is_empty"      -> 1
      [] stage = "face_detect"   -> 2
      [] stage = "eye_detect"    -> 3
      [] stage = "eye_classify"  -> 4
      [] stage = "face_classify" -> 4
      [] stage = "hand_detect"   -> 5

\* C14: with diagnostics off visualize is never called; with diagnostics on
\* a call that returns has called it exactly once, in its last step, after
\* every stage of its variant was evaluated.
C14_VisualizeOnlyWithDiagnostics ==
    /\ (pc # "idle" /\ ~viz) => vis = <<>>
    /\ (Returned /\ viz) => Len(vis) = 1
    /\ vis # <<>> =>
          /\ Returned /\ viz /\ Len(vis) = 1
          /\ Invoked("is_empty") /\ Invoked("face_detect")
          /\ FullCall => /\ Invoked("hand_detect")
                         /\ o.face => Invoked("eye_detect")
                         /\ (o.face /\ o.eyes # <<>>) => Invoked("eye_classify")
          /\ NoEyeCall => (o.face => Invoked("face_classify"))

C14_Witness ==
    /\ FullCall /\ Returned /\ viz /\ Len(vis) = 1 /\ Invoked("hand_detect")
    /\ o.face /\ OpenEye /\ vis[1].label = "awake"

\* C15: a call in flight comes to an end; it ends with an exception only if
\* the image did not load or an invoked adapter raised, and otherwise it
\* returns exactly one of AWAKE, SLEEPING, NOTTHERE.
C15_TerminatesWithState ==
    /\ (pc = "start") ~> (pc \in {"done", "raised"})
    /\ [](pc = "raised" => (LoadFails \/ Invoked(o.fail)))
    /\ [](Returned <=> result \in PassengerState)
    /\ [](result \in PassengerState \cup {"none"})

C15_Witness ==
    /\ NoEyeCall /\ Returned /\ ~viz /\ ~o.empty /\ ~o.face /\ o.fail = "face_classify"
    /\ result = SLEEPING

\* C16: with diagnostics off the stages are invoked in the order emptiness,
\* face location, face-dependent stage, hand detection, and none is invoked
\* after a terminal decision: none after an empty seat, no hand detection
\* after an open eye, and the face classifier only after a face was found.
C16_OrderAndShortCircuit ==
    (pc # "idle" /\ ~viz) =>
        /\ \A i, j \in 1..Len(calls) :
              i < j => /\ StageRank(calls[i]) <= StageRank(calls[j])
                       /\ calls[i] = calls[j] => calls[i] = "eye_classify"
        /\ calls # <<>> => calls[1] = "is_empty"
        /\ o.empty => Range(calls) \subseteq {"is_empty"}
        /\ (FullCall /\ Invoked("eye_classify") /\ OpenEye) => ~Invoked("hand_detect")
        /\ Invoked("face_classify") => (NoEyeCall /\ o.face /\ Invoked("face_detect"))

C16_Witness ==
    /\ FullCall /\ ~viz /\ Returned /\ ~o.empty /\ o.face /\ OpenEye /\ ClosedEye
    /\ o.hands # <<>> /\ ~Invoked("hand_detect")
    /\ calls = <<"is_empty", "face_detect", "eye_detect", "eye_classify", "eye_classify">>

\* C17: with diagnostics on no stage is skipped: a Full call that returns has
\* invoked the face locator and the hand detector, and the eye locator if a
\* face was found; a NoEye call that returns has invoked the face locator.
C17_DiagnosticsRunAllStages ==
    (Returned /\ viz) =>
        /\ Invoked("face_detect")
        /\ FullCall => /\ Invoked("hand_detect")
                       /\ o.face => Invoked("eye_detect")

C17_Witness ==
    /\ FullCall /\ viz /\ Returned /\ o.empty /\ o.face /\ OpenEye
    /\ Invoked("eye_detect") /\ Invoked("hand_detect")

\* C18: Full variant, seat not empty, face found, at least one eye region and
\* all of them closed: the hand stage is reached and the call returns AWAKE
\* if a hand is found and SLEEPING if not.
C18_ClosedEyesFallThrough ==
    (FullCall /\ Returned /\ ~o.empty /\ o.face /\ o.eyes # <<>> /\ ~OpenEye) =>
        /\ Invoked("eye_classify") /\ Invoked("hand_detect")
        /\ result = IF o.hands # <<>> THEN AWAKE ELSE SLEEPING

C18_Witness ==
    /\ FullCall /\ Returned /\ ~viz /\ ~o.empty /\ o.face /\ Len(o.eyes) = 2 /\ ~OpenEye
    /\ o.hands = <<>> /\ Invoked("hand_detect") /\ result = SLEEPING

\* C19: a NoEye call never invokes the hand detector, the eye locator or the
\* eye classifier, and never reads an attribute that NoEyePipeline.__init__
\* did not assign.
C19_NoEyeUsesOwnFieldsOnly ==
    NoEyeCall =>
        /\ Range(calls) \cap {"hand_detect", "eye_detect", "eye_classify"} = {}
        /\ reads \subseteq pipe.attrs
        /\ reads \cap {"face_model", "eye_model", "eye_classifier", "hand_model",
                       "eye_model_confidence"} = {}
        /\ raised # "AttributeError"

C19_Witness ==
    /\ NoEyeCall /\ Returned /\ viz /\ o.face /\ vis # <<>>
    /\ reads = {"face_detection", "face_classification"}

\* the state a call returns, as a function of the variant, the diagnostics
\* flag and the adapter outputs of that call alone
Determined(variant, diag, out) ==
    LET open == out.face /\ \E i \in 1..Len(out.eyes) : out.eyes[i] = 1
        hand == out.hands # <<>>
        faceState == IF out.faceLabel = 0 THEN AWAKE ELSE SLEEPING
    IN  IF variant = "Full"
        THEN IF diag
             THEN IF hand \/ open THEN AWAKE
                  ELSE IF out.empty THEN NOTTHERE ELSE SLEEPING
             ELSE IF out.empty THEN NOTTHERE
                  ELSE IF open \/ hand THEN AWAKE ELSE SLEEPING
        ELSE IF diag
             THEN IF out.face THEN faceState
                  ELSE IF out.empty THEN NOTTHERE ELSE SLEEPING
             ELSE IF out.empty THEN NOTTHERE
                  ELSE IF out.face THEN faceState ELSE SLEEPING

C22_TraceMatchesEmptiness ==
    \A i \in 1..Len(vis) :
        Line("Seat is not empty.", 0, 0) \in Range(vis[i].text) => ~o.empty

\* C23: the label handed to the visualizer is the lowercase name of the
\* state the same call returns.
C23_LabelIsReturnedState ==
    vis # <<>> =>
        /\ Returned
        /\ result = AWAKE => vis[1].label = "awake"
        /\ result = SLEEPING => vis[1].label = "sleeping"
        /\ result = NOTTHERE => vis[1].label = "notthere"

C23_Witness ==
    /\ NoEyeCall /\ Returned /\ viz /\ Len(vis) = 1 /\ o.empty /\ ~o.face
    /\ result = NOTTHERE /\ vis[1].label = "notthere"

\* C24: a call returns NOTTHERE only if the emptiness detector, invoked in
\* that call, reported the seat empty.
C24_NotThereOnlyWhenEmpty ==
    (Returned /\ result = NOTTHERE) => (o.empty /\ Invoked("is_empty"))

C24_Witness ==
    /\ FullCall /\ Returned /\ viz /\ result = NOTTHERE /\ o.empty
    /\ Invoked("hand_detect") /\ o.face /\ o.eyes # <<>>

\* C25: a visualize call with eye boxes has a face box (a face was found);
\* without a face the eye list handed over is empty; the NoEye variant hands
\* over empty eye and hand lists; visualize never fails on an absent face box.
C25_EyeBoxesHaveFaceBox ==
    /\ raised # "TypeError"
    /\ \A i \in 1..Len(vis) :
          /\ vis[i].eyes_xxyy # <<>> => (o.face /\ Len(vis[i].face_xxyy) = 4)
          /\ ~o.face => (vis[i].eyes_xxyy = <<>> /\ vis[i].face_xxyy = <<>>)
          /\ NoEyeCall => (vis[i].eyes_xxyy = <<>> /\ vis[i].hands_xxyy = <<>>)

C25_Witness ==
    /\ FullCall /\ Returned /\ viz /\ Len(vis) = 1 /\ Len(vis[1].eyes_xxyy) = 2
    /\ vis[1].face_xxyy = <<30, 60, 10, 50>>

====
